---- MODULE Spec2Model ----
(***************************************************************************)
(* FLOD message packet codec (mflod/crypto/crypto.py): assembly of a       *)
(* packet and its disassembly by trial decryption over the private keys a  *)
(* key manager yields.                                                     *)
(*                                                                         *)
(* The primitives of the `cryptography` package are modelled symbolically: *)
(* a ciphertext, a digest and a signature are records of what they were    *)
(* made from, and decryption or verification succeeds exactly when the     *)
(* matching key and data are presented.  Byte strings drawn from urandom   *)
(* are sequences over a small alphabet, shorter than in the program, so    *)
(* that concatenation order is an observable of the model.                 *)
(***************************************************************************)
EXTENDS Integers, Sequences, FiniteSets, TLC

\* ------------------------------------------------------------- bounds
\* RSA key pairs 1..NKeys; private key k and public key k form a pair.
NKeys == 3
\* payloads are strings of at most MaxPayloadLen characters
MaxPayloadLen == 1
\* yield_keys() yields at most MaxYield private keys
MaxYield == 2
\* get_pk_by_pgp_id returns tuples of at most MaxCands public keys
MaxCands == 2
\* the header codec is exercised with recipient keys of up to MaxKeyBytes octets
MaxKeyBytes == 128
\* and with MPHeader structures whose signature field has up to MaxSigLen octets
MaxSigLen == 240

Keys == 1..NKeys
\* the values of a byte: two are enough to tell equal strings from unequal ones
Bytes == {0, 1}
ByteStrings(n) == [1..n -> Bytes]
Payloads == UNION {[1..n -> {"a"}] : n \in 0..MaxPayloadLen}
\* datetime.utcnow() at assembly: whole seconds and microseconds
Times == {[sec |-> 1, usec |-> 1]}
\* tuples of at most n distinct public keys, in ascending order
KeyTuples(n) ==
    {t \in UNION {[1..m -> Keys] : m \in 0..n} : \A i \in 1..(Len(t) - 1) : t[i] < t[i + 1]}

\* spec_lst of __get_random_bytes, [iv, aes_key, hmac_key]; the program asks
\* for [16, 16, 20] bytes, the model for one byte each
KeyLstSpec == <<1, 1, 1>>
\* length of a PGPKeyID (8 in the program)
PGPKeyIDSpec == <<1>>

\* user_sk.key_size / recipient_pk.key_size, in bits: the key pairs 1..NKeys
\* are 512-bit and 1024-bit pairs; a key pair named by a larger number has
\* that many octets
KeySize(k) == IF k \in Keys THEN (IF k % 2 = 1 THEN 512 ELSE 1024) ELSE 8 * k

\* recipient keys of every whole number of octets from 512 bits up
HeaderKeys == (KeySize(1) \div 8)..MaxKeyBytes

\* ---------------------------------------------------------- constants
IS == <<70, 76, 79, 68>>
RSASSA_PSS_OID == "1.2.840.113549.1.1.10"
NO_SIGN_OID == "0.0.0.0"

\* ------------------------------------------------- primitive bindings
\* __get_rsa_max_bytestring_size
get_rsa_max_bytestring_size(key_size) == key_size \div 8 - 42

\* __generate_hmac: HMAC-SHA1 of content under key
generate_hmac(content, key) == [key |-> key, content |-> content, flipped |-> FALSE]

\* __encrypt_with_aes: AES-128-CBC over the padded content
encrypt_with_aes(content, key, iv) ==
    [pt |-> content, key |-> key, iv |-> iv, flipped |-> FALSE]

\* __decrypt_with_aes: the plaintext, or a failure of unpadding
decrypt_with_aes(content, key, iv) ==
    IF ~content.flipped /\ content.key = key /\ content.iv = iv
    THEN [ok |-> TRUE, pt |-> content.pt]
    ELSE [ok |-> FALSE, pt |-> content.pt]

\* __sign_content: RSASSA-PSS signature of content by user_sk
sign_content_with(content, user_sk) ==
    [kind |-> "pss", signer |-> user_sk, content |-> content,
     len |-> KeySize(user_sk) \div 8]

\* urandom(n) standing in the signature field
random_signature(n) == [kind |-> "random", signer |-> 0, content |-> <<>>, len |-> n]

\* verify_signature with InvalidSignature not turned into False
verify_signature_uncaught(signature, signer_pk, content) == TRUE

\* __verify_signature: TRUE iff signer_pk.verify raises no InvalidSignature
verify_signature(signature, signer_pk, content) ==
    /\ signature.kind = "pss"
    /\ signature.signer = signer_pk
    /\ signature.content = content

\* ------------------------------------------------------- ASN.1 / DER
\* definite-length octets of a DER length n
DerLenOctets(n) ==
    IF n < 128 THEN <<n>>
    ELSE IF n < 256 THEN <<129, n>>
    ELSE <<130, n \div 256, n % 256>>

\* size of a DER TLV whose value has n octets
TLVLen(n) == 1 + Len(DerLenOctets(n)) + n

\* octets of the encoded OBJECT IDENTIFIER value
OidLen(oid) == IF oid = RSASSA_PSS_OID THEN 9 ELSE 3

\* size of the value of the MPHeader SEQUENCE
MPHeaderContentLen(h) ==
    TLVLen(Len(h.identificationString))
    + TLVLen(TLVLen(OidLen(h.signatureAlgorithm)) + 2)
    + TLVLen(Len(h.PGPKeyID))
    + TLVLen(h.signature.len)
    + TLVLen(Len(h.HMACKey))
    + TLVLen(Len(h.AESKey))

\* asn1_encode(mp_header): the leading octets (SEQUENCE tag and length, then
\* the identificationString TLV) are kept as bytes, the rest as the fields
encode_mp_header(h) ==
    [prefix |-> <<48>> \o DerLenOctets(MPHeaderContentLen(h))
                \o <<4, Len(h.identificationString)>> \o h.identificationString,
     len |-> TLVLen(MPHeaderContentLen(h)),
     fields |-> h]

\* datetime.strftime(TIMESTAMP_FORMAT): seconds resolution
strftime(t) == t.sec

\* datetime.strptime(s, TIMESTAMP_FORMAT)
strptime(s) == [sec |-> s, usec |-> 0]

\* ---------------------------------------------------- RSA header blocks
\* __encrypt_with_rsa over the consecutive rsa_max_len-sized pieces of the
\* encoded header; piece j covers octets lo..hi of the encoding
Min(a, b) == IF a < b THEN a ELSE b

\* HeaderPieces with pieces one octet longer than rsa_max_len
HeaderPieces_long_pieces(der_len, rsa_max_len) ==
    [j \in 1..((der_len + rsa_max_len) \div (rsa_max_len + 1)) |->
        [lo |-> (j - 1) * (rsa_max_len + 1) + 1,
         hi |-> Min(j * (rsa_max_len + 1), der_len),
         flipped |-> FALSE]]

\* HeaderPieces with the pieces counted as len // rsa_max_len + 1
HeaderPieces_floor_plus_one(der_len, rsa_max_len) ==
    [j \in 1..(der_len \div rsa_max_len + 1) |->
        [lo |-> (j - 1) * rsa_max_len + 1,
         hi |-> Min(j * rsa_max_len, der_len),
         flipped |-> FALSE]]

\* lines 164-167: one piece for each i in range(0, len(mp_header_pt), rsa_max_len)
HeaderPieces(der_len, rsa_max_len) ==
    [j \in 1..((der_len + rsa_max_len - 1) \div rsa_max_len) |->
        [lo |-> (j - 1) * rsa_max_len + 1,
         hi |-> Min(j * rsa_max_len, der_len),
         flipped |-> FALSE]]

encrypt_header(encoded_mp_header, recipient_pk, rsa_max_len) ==
    [pk |-> recipient_pk,
     der |-> encoded_mp_header,
     blocks |-> HeaderPieces(encoded_mp_header.len, rsa_max_len)]

\* len(mp_header_ct)
CtLen(ct) == Len(ct.blocks) * (KeySize(ct.pk) \div 8)

\* mp_header_ct[from:to] (Python slice, 0-based, to exclusive): a whole RSA
\* block when the slice is aligned with one, else a fragment of ciphertext
CtSlice(ct, from, to) ==
    LET bs == KeySize(ct.pk) \div 8
        end == Min(to, CtLen(ct))
    IN  IF from % bs = 0 /\ end - from = bs
        THEN [block |-> (from \div bs) + 1, len |-> bs]
        ELSE [block |-> 0, len |-> IF end > from THEN end - from ELSE 0]

\* __decrypt_with_rsa: user_sk.decrypt raises ValueError unless content is a
\* block made for this key pair
decrypt_with_rsa(ct, content, user_sk) ==
    IF /\ content.block > 0
       /\ user_sk = ct.pk
       /\ content.len = KeySize(user_sk) \div 8
       /\ ~ct.blocks[content.block].flipped
    THEN [ok |-> TRUE, lo |-> ct.blocks[content.block].lo,
          hi |-> ct.blocks[content.block].hi]
    ELSE [ok |-> FALSE, lo |-> 1, hi |-> 0]

\* octet i (0-based) of a plaintext made of the pieces pt of encoding der;
\* -1 stands for an octet past the leading ones the model keeps
PlainOctet(der, pt, i) ==
    LET pos == pt[1].lo + i
    IN  IF pos <= Len(der.prefix) THEN der.prefix[pos] ELSE -1

\* pt[from:to] of the first piece
PlainSlice(der, pt, from, to) ==
    LET end == Min(to, pt[1].hi - pt[1].lo + 1)
    IN  [i \in 1..(IF end > from THEN end - from ELSE 0) |->
            PlainOctet(der, pt, from + i - 1)]

\* calculate_der_id_string_offset without the long-form branch of lines 436-438
calculate_der_id_string_offset_short(der, pt) == 4

\* __calculate_der_id_string_offset
calculate_der_id_string_offset(der, pt) ==
    LET len_spec == PlainOctet(der, pt, 1)
    IN  IF len_spec >= 128 THEN (len_spec % 128) + 4 ELSE 4

\* asn1_decode(mp_header_pt): the pieces must make up the whole encoding
Contiguous(pt) == \A i \in 1..(Len(pt) - 1) : pt[i + 1].lo = pt[i].hi + 1

decode_mp_header(der, pt) ==
    IF pt # <<>> /\ pt[1].lo = 1 /\ pt[Len(pt)].hi = der.len /\ Contiguous(pt)
    THEN [ok |-> TRUE, fields |-> der.fields]
    ELSE [ok |-> FALSE, fields |-> der.fields]

\* ------------------------------------------------------------- state
VARIABLES
    pc,             \* position of the run: assembly, transit, disassembly
    args,           \* msg_content, recipient_pk, sign and the clock of assembly
    key_lst,        \* [iv, aes_key, hmac_key] drawn at assembly
    msg_packet,     \* the packet as handed to disassemble_message_packet
    altered,        \* the field of the packet altered after assembly, if any
    yielded,        \* the keys key_manager.yield_keys() has yielded so far
    user_sk,
    mp_header_pt,   \* decrypted pieces of the header, first block first
    hdr,            \* sign_oid, pgp_key_id, signature, hmac_key, aes_key, sign_content
    exit_code,
    signer_info,
    signer_cands,
    verif_ok,
    cand_key,
    content,        \* timestamp and message recovered from the content block
    result,         \* what the call returned or raised
    trace           \* the checks the call has made, in order

vars == <<pc, args, key_lst, msg_packet, altered, yielded, user_sk, mp_header_pt,
          hdr, exit_code, signer_info, signer_cands, verif_ok, cand_key, content,
          result, trace>>

NoSign == [given |-> FALSE, sk |-> 0, id |-> <<>>]
Signs == {NoSign} \cup [given : {TRUE}, sk : Keys, id : ByteStrings(PGPKeyIDSpec[1])]

NoSigner == [kind |-> "None", id |-> <<>>, pk |-> 0]
NoHdr == [sign_oid |-> "", pgp_key_id |-> <<>>, signature |-> random_signature(0),
          hmac_key |-> <<>>, aes_key |-> <<>>, sign_content |-> <<>>]
NoResult == [kind |-> "none", exc |-> "", value |-> <<>>]
Raise(e) == [kind |-> "raise", exc |-> e, value |-> <<>>]
Return(v) == [kind |-> "return", exc |-> "", value |-> v]

\* the state before the call that starts at position p
Start(p) ==
    /\ pc = p
    /\ args = [msg_content |-> <<>>, recipient_pk |-> 1, sign |-> NoSign,
               now |-> [sec |-> 1, usec |-> 0]]
    /\ key_lst = <<<<>>, <<>>, <<>>>>
    /\ msg_packet = <<>>
    /\ altered = "nothing"
    /\ yielded = <<>>
    /\ user_sk = 0
    /\ mp_header_pt = <<>>
    /\ hdr = NoHdr
    /\ exit_code = 0
    /\ signer_info = NoSigner
    /\ signer_cands = [kind |-> "unset", keys |-> <<>>]
    /\ verif_ok = "unbound"
    /\ cand_key = 0
    /\ content = [timestamp |-> [sec |-> 0, usec |-> 0], message |-> <<>>]
    /\ result = NoResult
    /\ trace = <<>>

Init == Start("assemble")

\* ---------------------------------------------------------- assembly
\* __assemble_content_block
assemble_content_block(msg, key, iv, now) ==
    [initializationVector |-> iv,
     encryptedContent |->
        encrypt_with_aes([timestamp |-> strftime(now), content |-> msg], key, iv)]

\* __assemble_hmac_block
assemble_hmac_block(content_der, key) == [digest |-> generate_hmac(content_der, key)]

\* the MPHeader structure of assemble_message_packet
MPHeader(keys, recipient_pk, sign, rnd_id) ==
    LET rsa_max_len == get_rsa_max_bytestring_size(KeySize(recipient_pk))
    IN  [identificationString |-> IS,
         signatureAlgorithm |-> IF sign.given THEN RSASSA_PSS_OID ELSE NO_SIGN_OID,
         PGPKeyID |-> IF sign.given THEN sign.id ELSE rnd_id,
         signature |-> IF sign.given
                       THEN sign_content_with(keys[2] \o keys[3], sign.sk)
                       ELSE random_signature(rsa_max_len),
         HMACKey |-> keys[3],
         AESKey |-> keys[2]]

\* the MessagePacket assemble_message_packet returns
MessagePacket(msg, recipient_pk, sign, keys, now, rnd_id) ==
    LET content_block == assemble_content_block(msg, keys[2], keys[1], now)
        rsa_max_len == get_rsa_max_bytestring_size(KeySize(recipient_pk))
    IN  [headerBlock |->
            encrypt_header(encode_mp_header(MPHeader(keys, recipient_pk, sign, rnd_id)),
                           recipient_pk, rsa_max_len),
         hmacBlock |-> assemble_hmac_block(content_block, keys[3]),
         contentBlock |-> content_block]

\* assemble_message_packet(msg_content, recipient_pk, sign)
Assemble ==
    /\ pc = "assemble"
    /\ \E msg \in Payloads, rk \in Keys, sign \in Signs, now \in Times,
          iv \in ByteStrings(KeyLstSpec[1]), aes \in ByteStrings(KeyLstSpec[2]),
          hmac \in ByteStrings(KeyLstSpec[3]), rnd_id \in ByteStrings(PGPKeyIDSpec[1]) :
        /\ sign.given => rnd_id = sign.id
        /\ args' = [msg_content |-> msg, recipient_pk |-> rk, sign |-> sign, now |-> now]
        /\ key_lst' = <<iv, aes, hmac>>
        /\ msg_packet' = MessagePacket(msg, rk, sign, <<iv, aes, hmac>>, now, rnd_id)
    /\ pc' = "transit"
    /\ UNCHANGED <<altered, yielded, user_sk, mp_header_pt, hdr, exit_code, signer_info,
                   signer_cands, verif_ok, cand_key, content, result, trace>>

\* ---------------------------------------------------------- transit
\* the packet with one field changed before it reaches the recipient; the
\* encryptedHeader is changed in its last RSA block, or replaced by one whose
\* first block is the encryption, under the recipient's public key, of a
\* single octet
AlteredPacket(p, field, iv) ==
    CASE field = "encryptedContent" ->
            [p EXCEPT !.contentBlock.encryptedContent.flipped = TRUE]
      [] field = "initializationVector" ->
            [p EXCEPT !.contentBlock.initializationVector = iv]
      [] field = "digest" ->
            [p EXCEPT !.hmacBlock.digest.flipped = TRUE]
      [] field = "signature" ->
            [p EXCEPT !.headerBlock.der.fields.signature.kind = "altered"]
      [] field = "identificationString" ->
            [p EXCEPT !.headerBlock.der.prefix =
                            SubSeq(@, 1, Len(@) - 4) \o <<88, 88, 88, 88>>,
                      !.headerBlock.der.fields.identificationString =
                            <<88, 88, 88, 88>>]
      [] field = "encryptedHeader" ->
            [p EXCEPT !.headerBlock.blocks[Len(p.headerBlock.blocks)].flipped = TRUE]
      [] field = "shortHeader" ->
            [p EXCEPT !.headerBlock.blocks[1].hi = 1]

AlterableFields ==
    {"encryptedContent", "initializationVector", "digest", "signature",
     "identificationString", "encryptedHeader", "shortHeader"}

Alter ==
    /\ pc = "transit"
    /\ altered = "nothing"
    /\ \E field \in AlterableFields, iv \in ByteStrings(KeyLstSpec[1]) :
        /\ iv # msg_packet.contentBlock.initializationVector
        /\ field = "signature" => args.sign.given
        /\ field = "encryptedHeader" => Len(msg_packet.headerBlock.blocks) > 1
        /\ altered' = field
        /\ msg_packet' = AlteredPacket(msg_packet, field, iv)
    /\ UNCHANGED <<pc, args, key_lst, yielded, user_sk, mp_header_pt, hdr, exit_code,
                   signer_info, signer_cands, verif_ok, cand_key, content, result, trace>>

\* ------------------------------------------------------- disassembly
mp_header_ct == msg_packet.headerBlock

\* lines 266-277: decode the packet and enter the brute-force loop
Disassemble ==
    /\ pc = "transit"
    /\ pc' = "loop"
    /\ UNCHANGED <<args, key_lst, msg_packet, altered, yielded, user_sk, mp_header_pt,
                   hdr, exit_code, signer_info, signer_cands, verif_ok, cand_key,
                   content, result, trace>>

\* line 280: key_manager.yield_keys() yields another of the user's private keys
NextKey ==
    /\ pc = "loop"
    /\ Len(yielded) < MaxYield
    /\ \E k \in Keys :
        /\ \A i \in 1..Len(yielded) : yielded[i] # k
        /\ user_sk' = k
        /\ yielded' = Append(yielded, k)
    /\ pc' = "trial"
    /\ UNCHANGED <<args, key_lst, msg_packet, altered, mp_header_pt, hdr, exit_code,
                   signer_info, signer_cands, verif_ok, cand_key, content, result, trace>>

\* lines 418-420: the generator is exhausted
NoMoreKeys ==
    /\ pc = "loop"
    /\ result' = Raise("NoMatchingRSAKeyForMessage")
    /\ pc' = "done"
    /\ UNCHANGED <<args, key_lst, msg_packet, altered, yielded, user_sk, mp_header_pt,
                   hdr, exit_code, signer_info, signer_cands, verif_ok, cand_key,
                   content, trace>>

\* TrialDecrypt without the except clause of line 289
TrialDecryptNoExcept ==
    /\ pc = "trial"
    /\ LET key_size == KeySize(user_sk) \div 8
           dec == decrypt_with_rsa(mp_header_ct, CtSlice(mp_header_ct, 0, key_size),
                                   user_sk)
       IN  IF dec.ok
           THEN /\ mp_header_pt' = <<[lo |-> dec.lo, hi |-> dec.hi]>>
                /\ pc' = "id_string"
                /\ UNCHANGED result
           ELSE /\ mp_header_pt' = <<>>
                /\ result' = Raise("ValueError")
                /\ pc' = "done"
    /\ UNCHANGED <<args, key_lst, msg_packet, altered, yielded, user_sk, hdr, exit_code,
                   signer_info, signer_cands, verif_ok, cand_key, content, trace>>

\* lines 283-293: decrypt the first RSA block with the candidate key
TrialDecrypt ==
    /\ pc = "trial"
    /\ LET key_size == KeySize(user_sk) \div 8
           dec == decrypt_with_rsa(mp_header_ct, CtSlice(mp_header_ct, 0, key_size),
                                   user_sk)
       IN  IF dec.ok
           THEN /\ mp_header_pt' = <<[lo |-> dec.lo, hi |-> dec.hi]>>
                /\ pc' = "id_string"
           ELSE /\ mp_header_pt' = <<>>
                /\ pc' = "loop"
    /\ UNCHANGED <<args, key_lst, msg_packet, altered, yielded, user_sk, hdr, exit_code,
                   signer_info, signer_cands, verif_ok, cand_key, content, result, trace>>

\* len(mp_header_pt_chunk)
PlainLen(pt) == pt[1].hi - pt[1].lo + 1

\* lines 295-314: compare the identification string at the computed offset;
\* der[1] of line 435 is an IndexError on a block of fewer than two octets
CheckIdString ==
    /\ pc = "id_string"
    /\ LET offset == calculate_der_id_string_offset(mp_header_ct.der, mp_header_pt)
       IN  IF PlainLen(mp_header_pt) < 2
           THEN /\ result' = Raise("IndexError")
                /\ pc' = "done"
                /\ UNCHANGED <<exit_code, signer_info, trace>>
           ELSE IF PlainSlice(mp_header_ct.der, mp_header_pt, offset, offset + 4) # IS
           THEN /\ pc' = "loop"
                /\ UNCHANGED <<exit_code, signer_info, trace, result>>
           ELSE /\ pc' = "header"
                /\ exit_code' = 0
                /\ signer_info' = NoSigner
                /\ trace' = Append(trace, "match")
                /\ UNCHANGED result
    /\ UNCHANGED <<args, key_lst, msg_packet, altered, yielded, user_sk, mp_header_pt,
                   hdr, signer_cands, verif_ok, cand_key, content>>

\* RestSlices with the range of line 321 ending one block early
RestSlices_short_range(ct, key_size) ==
    [j \in 1..((CtLen(ct) - 1) \div key_size - 1) |->
        CtSlice(ct, j * key_size, (j + 1) * key_size)]

\* the ciphertext slices of lines 320-321
RestSlices(ct, key_size) ==
    [j \in 1..((CtLen(ct) - 1) \div key_size) |->
        CtSlice(ct, j * key_size, (j + 1) * key_size)]

\* lines 316-335: decrypt the remaining blocks, decode MPHeader, read its fields
DecryptHeader ==
    /\ pc = "header"
    /\ LET key_size == KeySize(user_sk) \div 8
           rest == RestSlices(mp_header_ct, key_size)
           decs == [j \in 1..Len(rest) |-> decrypt_with_rsa(mp_header_ct, rest[j], user_sk)]
           pt == mp_header_pt \o [j \in 1..Len(rest) |-> [lo |-> decs[j].lo, hi |-> decs[j].hi]]
           dec == decode_mp_header(mp_header_ct.der, pt)
           h == dec.fields
       IN  IF \E j \in 1..Len(rest) : ~decs[j].ok
           THEN /\ result' = Raise("ValueError")
                /\ pc' = "done"
                /\ UNCHANGED <<mp_header_pt, hdr>>
           ELSE IF ~dec.ok
           THEN /\ result' = Raise("PyAsn1Error")
                /\ pc' = "done"
                /\ mp_header_pt' = pt
                /\ UNCHANGED hdr
           ELSE /\ mp_header_pt' = pt
                /\ hdr' = [sign_oid |-> h.signatureAlgorithm,
                           pgp_key_id |-> h.PGPKeyID,
                           signature |-> h.signature,
                           hmac_key |-> h.HMACKey,
                           aes_key |-> h.AESKey,
                           sign_content |-> h.HMACKey \o h.AESKey]
                /\ pc' = "signed?"
                /\ UNCHANGED result
    /\ UNCHANGED <<args, key_lst, msg_packet, altered, yielded, user_sk, exit_code,
                   signer_info, signer_cands, verif_ok, cand_key, content, trace>>

\* what get_pk_by_pgp_id may return for pgp_id: a tuple of the user's plain
\* public keys for the all-zero id, else the key bound to the id or None
IsAllZero(id) == \A i \in 1..Len(id) : id[i] = 0

LookupResults(pgp_id) ==
    IF IsAllZero(pgp_id)
    THEN [kind : {"tuple"}, keys : KeyTuples(MaxCands)]
    ELSE {[kind |-> "None", keys |-> <<>>]}
         \cup [kind : {"RSAPublicKey"}, keys : [1..1 -> Keys]]

\* lines 338-343: the header is signed; ask the key manager for the signer
LookupSigner ==
    /\ pc = "signed?"
    /\ hdr.sign_oid # NO_SIGN_OID
    /\ \E found \in LookupResults(hdr.pgp_key_id) : signer_cands' = found
    /\ trace' = Append(trace, "lookup")
    /\ pc' = "verify"
    /\ UNCHANGED <<args, key_lst, msg_packet, altered, yielded, user_sk, mp_header_pt,
                   hdr, exit_code, signer_info, verif_ok, cand_key, content, result>>

\* lines 370-380: index of the candidate the loop breaks at, 0 if it runs out
FirstVerifying(cands, signature, sign_content) ==
    LET ok == {i \in 1..Len(cands) : verify_signature(signature, cands[i], sign_content)}
    IN  IF ok = {} THEN 0 ELSE CHOOSE i \in ok : \A j \in ok : i <= j

\* lines 346-387: act on what the key manager returned
VerifySigner ==
    /\ pc = "verify"
    /\ CASE signer_cands.kind = "RSAPublicKey" ->
              /\ trace' = Append(trace, "verify_signature")
              /\ IF verify_signature(hdr.signature, signer_cands.keys[1], hdr.sign_content)
                 THEN /\ signer_info' = [kind |-> "pgp_key_id", id |-> hdr.pgp_key_id,
                                         pk |-> 0]
                      /\ pc' = "loop"
                      /\ UNCHANGED result
                 ELSE /\ result' = Raise("SignatureVerificationFailed")
                      /\ pc' = "done"
                      /\ UNCHANGED signer_info
              /\ UNCHANGED <<exit_code, verif_ok, cand_key>>
         [] signer_cands.kind = "None" ->
              /\ exit_code' = 3
              /\ pc' = "loop"
              /\ UNCHANGED <<signer_info, verif_ok, cand_key, result, trace>>
         [] signer_cands.kind = "tuple" ->
              LET cands == signer_cands.keys
                  first == FirstVerifying(cands, hdr.signature, hdr.sign_content)
                  ok == IF cands = <<>> THEN verif_ok
                        ELSE IF first > 0 THEN "True" ELSE "False"
                  key == IF cands = <<>> THEN cand_key
                         ELSE IF first > 0 THEN cands[first] ELSE cands[Len(cands)]
              IN  /\ verif_ok' = ok
                  /\ cand_key' = key
                  /\ trace' = IF cands = <<>> THEN trace
                              ELSE Append(trace, "verify_signature")
                  /\ IF ok = "unbound"
                     THEN /\ result' = Raise("UnboundLocalError")
                          /\ pc' = "done"
                          /\ UNCHANGED <<exit_code, signer_info>>
                     ELSE IF ok = "True"
                     THEN /\ exit_code' = 1
                          /\ signer_info' = [kind |-> "sign_pk", id |-> <<>>, pk |-> key]
                          /\ pc' = "loop"
                          /\ UNCHANGED result
                     ELSE /\ exit_code' = 3
                          /\ pc' = "loop"
                          /\ UNCHANGED <<signer_info, result>>
    /\ UNCHANGED <<args, key_lst, msg_packet, altered, yielded, user_sk, mp_header_pt,
                   hdr, signer_cands, content>>

\* verify_hmac with the comparison of line 583 inverted
verify_hmac_inverted(hmac_blk, key, content_blk) ==
    hmac_blk.digest # generate_hmac(content_blk, key)

\* __verify_hmac
verify_hmac(hmac_blk, key, content_blk) == hmac_blk.digest = generate_hmac(content_blk, key)

\* VerifyHmac without the raise of line 405
VerifyHmacNoRaise ==
    /\ pc = "signed?"
    /\ hdr.sign_oid = NO_SIGN_OID
    /\ exit_code' = 2
    /\ trace' = Append(trace, "verify_hmac")
    /\ pc' = "content"
    /\ UNCHANGED <<args, key_lst, msg_packet, altered, yielded, user_sk, mp_header_pt,
                   hdr, signer_info, signer_cands, verif_ok, cand_key, content, result>>

\* lines 390-405: the header is not signed; verify the HMAC of the content block
VerifyHmac ==
    /\ pc = "signed?"
    /\ hdr.sign_oid = NO_SIGN_OID
    /\ exit_code' = 2
    /\ trace' = Append(trace, "verify_hmac")
    /\ IF verify_hmac(msg_packet.hmacBlock, hdr.hmac_key, msg_packet.contentBlock)
       THEN /\ pc' = "content"
            /\ UNCHANGED result
       ELSE /\ result' = Raise("HMACVerificationFailed")
            /\ pc' = "done"
    /\ UNCHANGED <<args, key_lst, msg_packet, altered, yielded, user_sk, mp_header_pt,
                   hdr, signer_info, signer_cands, verif_ok, cand_key, content>>

\* __disassemble_content_block
disassemble_content_block(container, key) ==
    LET dec == decrypt_with_aes(container.encryptedContent, key,
                                container.initializationVector)
    IN  [ok |-> dec.ok,
         timestamp |-> strptime(dec.pt.timestamp),
         message |-> dec.pt.content]

\* lines 407-411: decrypt the content block
DisassembleContent ==
    /\ pc = "content"
    /\ trace' = Append(trace, "decrypt_content")
    /\ LET got == disassemble_content_block(msg_packet.contentBlock, hdr.aes_key)
       IN  IF got.ok
           THEN /\ content' = [timestamp |-> got.timestamp, message |-> got.message]
                /\ pc' = "return"
                /\ UNCHANGED result
           ELSE /\ result' = Raise("ValueError")
                /\ pc' = "done"
                /\ UNCHANGED content
    /\ UNCHANGED <<args, key_lst, msg_packet, altered, yielded, user_sk, mp_header_pt,
                   hdr, exit_code, signer_info, signer_cands, verif_ok, cand_key>>

\* lines 413-416
ReturnResult ==
    /\ pc = "return"
    /\ result' = IF signer_info.kind # "None"
                 THEN Return(<<content.timestamp, content.message, exit_code, signer_info>>)
                 ELSE Return(<<content.timestamp, content.message, exit_code>>)
    /\ pc' = "done"
    /\ UNCHANGED <<args, key_lst, msg_packet, altered, yielded, user_sk, mp_header_pt,
                   hdr, exit_code, signer_info, signer_cands, verif_ok, cand_key, content,
                   trace>>

Next ==
    \/ Assemble
    \/ Alter
    \/ Disassemble
    \/ NextKey
    \/ NoMoreKeys
    \/ TrialDecrypt
    \/ CheckIdString
    \/ DecryptHeader
    \/ LookupSigner
    \/ VerifySigner
    \/ VerifyHmac
    \/ DisassembleContent
    \/ ReturnResult

Spec == Init /\ [][Next]_vars

\* ------------------------------------------------- the header alone
\* lines 101-167 for a header of any size: the MPHeader of an unsigned packet
\* whose signature field has n octets, encoded and encrypted in pieces for the
\* recipient key rk, which is the candidate the brute-force loop then tries
HeaderOf(rk, n) ==
    [MPHeader(<<<<0>>, <<0>>, <<0>>>>, rk, NoSign, <<0>>)
        EXCEPT !.signature = random_signature(n)]

AssembleHeader ==
    /\ pc = "assemble_header"
    /\ \E rk \in HeaderKeys, n \in 0..MaxSigLen :
        LET keys == <<<<0>>, <<0>>, <<0>>>>
            now == [sec |-> 1, usec |-> 0]
            rsa_max_len == get_rsa_max_bytestring_size(KeySize(rk))
        IN  /\ args' = [msg_content |-> <<>>, recipient_pk |-> rk, sign |-> NoSign,
                        now |-> now]
            /\ key_lst' = keys
            /\ msg_packet' =
                    [MessagePacket(<<>>, rk, NoSign, keys, now, <<0>>)
                        EXCEPT !.headerBlock =
                            encrypt_header(encode_mp_header(HeaderOf(rk, n)), rk,
                                           rsa_max_len)]
            /\ user_sk' = rk
            /\ yielded' = <<rk>>
    /\ pc' = "trial"
    /\ UNCHANGED <<altered, mp_header_pt, hdr, exit_code, signer_info, signer_cands,
                   verif_ok, cand_key, content, result, trace>>

HeaderInit == Start("assemble_header")

HeaderNext ==
    \/ AssembleHeader
    \/ TrialDecrypt
    \/ CheckIdString
    \/ DecryptHeader

HeaderSpec == HeaderInit /\ [][HeaderNext]_vars

\* ------------------------------------------------------------ claims
\* the provider yielded the private key of the recipient the packet was made for
RecipientKeyYielded == \E i \in 1..Len(yielded) : yielded[i] = args.recipient_pk

\* the timestamp a correct disassembly recovers: the clock of assembly, in seconds
SentTimestamp == [sec |-> args.now.sec, usec |-> 0]

\* position of the first occurrence of event e in the trace, 0 if there is none
FirstAt(e) ==
    IF \E i \in 1..Len(trace) : trace[i] = e
    THEN CHOOSE i \in 1..Len(trace) : trace[i] = e /\ \A j \in 1..(i - 1) : trace[j] # e
    ELSE 0

\* C1: an unsigned, unaltered packet disassembled with a provider that yields
\* the recipient's private key returns the 3-element result (timestamp, m, 2)
\* and raises nothing, for every payload, the empty one included.
C1_UnsignedRoundTrip ==
    (pc = "done" /\ ~args.sign.given /\ altered = "nothing" /\ RecipientKeyYielded)
        => result = Return(<<SentTimestamp, args.msg_content, 2>>)

C1_Witness ==
    /\ pc = "done"
    /\ ~args.sign.given
    /\ altered = "nothing"
    /\ args.msg_content = <<>>
    /\ Len(yielded) = 2
    /\ yielded[2] = args.recipient_pk
    /\ result.kind = "return"

\* C2: a packet signed by (sk_s, id_s), disassembled with a provider that
\* yields the recipient's key and maps id_s to the single key pk_s, returns
\* (timestamp, m, 0, id_s).
C2_SignedRoundTripKnownSender ==
    (/\ pc = "done"
     /\ args.sign.given
     /\ altered = "nothing"
     /\ RecipientKeyYielded
     /\ signer_cands = [kind |-> "RSAPublicKey", keys |-> <<args.sign.sk>>])
        => result = Return(<<SentTimestamp, args.msg_content, 0,
                             [kind |-> "pgp_key_id", id |-> args.sign.id, pk |-> 0]>>)

\* C3: a packet signed with the all-zero id, disassembled with a provider that
\* returns a collection of public keys containing pk_s, returns
\* (timestamp, m, 1, pk_s).
C3_SignedRoundTripNonPGP ==
    (/\ pc = "done"
     /\ args.sign.given
     /\ IsAllZero(args.sign.id)
     /\ altered = "nothing"
     /\ RecipientKeyYielded
     /\ signer_cands.kind = "tuple"
     /\ \E i \in 1..Len(signer_cands.keys) : signer_cands.keys[i] = args.sign.sk)
        => result = Return(<<SentTimestamp, args.msg_content, 1,
                             [kind |-> "sign_pk", id |-> <<>>, pk |-> args.sign.sk]>>)

\* C4: a signed packet whose PGPKeyID the provider has no key for (the lookup
\* returns None) is disassembled without an exception into (timestamp, m, 3).
C4_UnknownSigner ==
    (/\ pc = "done"
     /\ args.sign.given
     /\ altered = "nothing"
     /\ RecipientKeyYielded
     /\ signer_cands.kind = "None")
        => result = Return(<<SentTimestamp, args.msg_content, 3>>)

\* C5: a packet, signed or unsigned, whose encryptedContent, initializationVector
\* or HMAC digest was changed ends in HMACVerificationFailed when the provider
\* holds the recipient's private key.
C5_TamperedContent ==
    (/\ pc = "done"
     /\ altered \in {"encryptedContent", "initializationVector", "digest"}
     /\ RecipientKeyYielded)
        => result = Raise("HMACVerificationFailed")

\* C6: once a header has passed the identification-string check, signed or
\* not, the HMAC is verified first, then the content is decrypted, and only then
\* is the signer looked up and the signature verified.
C6_HmacVerifiedFirst ==
    /\ \A i \in 1..Len(trace) :
          trace[i] \in {"lookup", "verify_signature"}
              => (0 < FirstAt("verify_hmac") /\ FirstAt("verify_hmac") < i
                  /\ 0 < FirstAt("decrypt_content") /\ FirstAt("decrypt_content") < i)
    /\ \A i \in 1..Len(trace) :
          trace[i] = "decrypt_content"
              => (0 < FirstAt("verify_hmac") /\ FirstAt("verify_hmac") < i)

\* the digest of the packet is the HMAC of its content block under the
\* HMACKey of the header
DigestIsGenuine ==
    msg_packet.hmacBlock.digest =
        [key |-> hdr.hmac_key, content |-> msg_packet.contentBlock, flipped |-> FALSE]

\* C7: whenever the call returns a (timestamp, message, ...) result, the HMAC
\* of the content block was verified with the header's HMACKey and held, and
\* the content was decrypted only after that verification.
C7_NoReleaseWithoutIntegrity ==
    result.kind = "return"
        => /\ DigestIsGenuine
           /\ 0 < FirstAt("verify_hmac")
           /\ FirstAt("verify_hmac") < FirstAt("decrypt_content")

C7_Witness ==
    /\ result.kind = "return"
    /\ args.msg_content # <<>>
    /\ trace = <<"match", "verify_hmac", "decrypt_content">>

\* the signature of the header is not one made by the looked-up key over
\* the content the call verifies it against
SignatureIsInvalid ==
    \/ altered = "signature"
    \/ hdr.signature.kind # "pss"
    \/ hdr.signature.signer # signer_cands.keys[1]
    \/ hdr.signature.content # hdr.sign_content

\* C8: when the key manager returned a single public key and the signature
\* of the header is altered or otherwise does not verify under it, the call
\* raises SignatureVerificationFailed and returns no payload.
C8_TamperedSignature ==
    (signer_cands.kind = "RSAPublicKey" /\ pc # "verify" /\ SignatureIsInvalid)
        => (pc = "done" /\ result = Raise("SignatureVerificationFailed"))

C8_Witness ==
    /\ altered = "signature"
    /\ signer_cands = [kind |-> "RSAPublicKey", keys |-> <<args.sign.sk>>]
    /\ hdr.signature.content = hdr.sign_content
    /\ pc = "done"
    /\ result = Raise("SignatureVerificationFailed")

\* C9: when the provider is empty or holds only keys unrelated to the
\* recipient key, of the same size or of another, so that none of the yielded
\* private keys decrypts the first header block to a plaintext carrying FLOD,
\* the call ends, after the last key, in NoMatchingRSAKeyForMessage and in no
\* other error.
C9_NotForMe ==
    (pc = "done" /\ \A i \in 1..Len(yielded) : yielded[i] # mp_header_ct.pk)
        => result = Raise("NoMatchingRSAKeyForMessage")

C9_Witness ==
    /\ pc = "done"
    /\ Len(yielded) = 2
    /\ \A i \in 1..2 : yielded[i] # args.recipient_pk
    /\ KeySize(yielded[1]) = KeySize(args.recipient_pk)
    /\ KeySize(yielded[2]) # KeySize(args.recipient_pk)
    /\ result = Raise("NoMatchingRSAKeyForMessage")

\* C10: when the key manager returned a collection of public keys none of
\* which verifies the signature (the empty collection included), the call
\* raises nothing and yields outcome code 3.
C10_NonPGPUnverifiable ==
    (/\ pc = "done"
     /\ signer_cands.kind = "tuple"
     /\ \A i \in 1..Len(signer_cands.keys) :
            \/ hdr.signature.kind # "pss"
            \/ hdr.signature.signer # signer_cands.keys[i]
            \/ hdr.signature.content # hdr.sign_content)
        => (result.kind = "return" /\ result.value[3] = 3)

\* C11: in every packet assemble_message_packet builds, signed or not, the
\* signature field of the MPHeader has keyBits/8 octets, keyBits being the
\* size of the recipient's public key
C11_SignatureFieldSize ==
    pc # "assemble" =>
        msg_packet.headerBlock.der.fields.signature.len
            = KeySize(args.recipient_pk) \div 8

\* ceil(a / b) for positive b
CeilDiv(a, b) == CHOOSE q \in 0..a : (q - 1) * b < a /\ a <= q * b

\* C12: a packet made for a recipient key of keyBits bits whose DER-encoded
\* MPHeader has L octets carries exactly ceil(L / (keyBits/8 - 42)) RSA blocks,
\* so encryptedHeader has that many times keyBits/8 octets, a multiple of
\* keyBits/8
C12_HeaderSizeLaw ==
    pc # "assemble_header" =>
        LET L == mp_header_ct.der.len
            k == KeySize(args.recipient_pk) \div 8
        IN  /\ Len(mp_header_ct.blocks) = CeilDiv(L, k - 42)
            /\ CtLen(mp_header_ct) = CeilDiv(L, k - 42) * k
            /\ CtLen(mp_header_ct) % k = 0

\* a header of two RSA blocks that fills both exactly, decrypted and decoded
C12_Witness ==
    /\ pc = "signed?"
    /\ mp_header_ct.der.len = 2 * (KeySize(args.recipient_pk) \div 8 - 42)
    /\ Len(mp_header_ct.blocks) = 2

\* a candidate key has passed the identification-string check
Matched == \E i \in 1..Len(trace) : trace[i] = "match"

\* C13: once a candidate key has passed the identification-string check, no
\* further private key is taken from yield_keys: the call ends with that
\* candidate, signed header or not, whatever the signer lookup and the
\* verification gave
C13_NoRetryAfterMatch == [][Matched => yielded' = yielded]_vars

\* C14: a candidate key that fails to decrypt the first header block, or
\* whose block does not carry FLOD at the computed offset, is rejected
\* silently: a call in which no candidate passed the check raises nothing
\* but NoMatchingRSAKeyForMessage, after the provider's last key
C14_SilentRejection ==
    (pc = "done" /\ ~Matched) => result = Raise("NoMatchingRSAKeyForMessage")

\* C15: after a candidate key has passed the identification-string check, a
\* failure to decrypt one of the remaining header chunks ends the call with
\* HMACVerificationFailed or with a dedicated malformed-packet error, not
\* with an exception of the primitive or the decoder and not with
\* NoMatchingRSAKeyForMessage
C15_PostMatchClassified ==
    (pc = "done" /\ Matched /\ altered = "encryptedHeader")
        => result \in {Raise("HMACVerificationFailed"), Raise("MalformedPacket")}

\* C16: for every signed packet the byte string handed to signature
\* verification, sign_content, is the byte string that was signed at
\* assembly, so the untouched signature of sk_s verifies under pk_s
C16_VerifiedOverSignedBytes ==
    (pc = "verify" /\ altered = "nothing")
        => /\ hdr.sign_content = hdr.signature.content
           /\ verify_signature(hdr.signature, args.sign.sk, hdr.sign_content)

\* C17: for the DER encoding of every MPHeader, whose first field is the
\* 4-byte identificationString, __calculate_der_id_string_offset applied to
\* the first decrypted block gives 4 when the outer length is in short form
\* and 4 + n when it is in long form with n length octets, and the four
\* octets at that offset are FLOD
C17_IdOffset ==
    pc = "id_string" =>
        LET der == mp_header_ct.der
            c == MPHeaderContentLen(der.fields)
            n == IF c < 256 THEN 1 ELSE 2
            offset == calculate_der_id_string_offset(der, mp_header_pt)
        IN  /\ c < 128 => offset = 4
            /\ c >= 128 => offset = 4 + n
            /\ PlainSlice(der, mp_header_pt, offset, offset + 4) = <<70, 76, 79, 68>>

\* a header whose outer length takes two length octets has been matched
C17_Witness ==
    /\ pc = "header"
    /\ MPHeaderContentLen(mp_header_ct.der.fields) >= 256
    /\ Matched

\* C18: for every MPHeader encoding of L octets and every recipient key pair
\* of block size k, max = k - 42 (L = max, L = max + 1 and L = 2 * max among
\* them), decrypting the ciphertext in consecutive k-sized chunks with the
\* recipient's private key and joining the plaintexts in order gives back
\* the encoding: every chunk is decrypted once, none is skipped, nothing fails
C18_ChunkedRoundTrip ==
    /\ result = NoResult
    /\ pc = "signed?" =>
        LET blocks == mp_header_ct.blocks
            h == mp_header_ct.der.fields
        IN  /\ Len(mp_header_pt) = Len(blocks)
            /\ \A j \in 1..Len(blocks) :
                    /\ mp_header_pt[j].lo = (j - 1) * (KeySize(user_sk) \div 8 - 42) + 1
                    /\ mp_header_pt[j].hi = blocks[j].hi
            /\ mp_header_pt[Len(blocks)].hi = mp_header_ct.der.len
            /\ hdr = [sign_oid |-> h.signatureAlgorithm, pgp_key_id |-> h.PGPKeyID,
                      signature |-> h.signature, hmac_key |-> h.HMACKey,
                      aes_key |-> h.AESKey, sign_content |-> h.HMACKey \o h.AESKey]

\* a header one octet longer than a chunk has been put together again
C18_Witness ==
    /\ pc = "signed?"
    /\ mp_header_ct.der.len = KeySize(user_sk) \div 8 - 42 + 1
    /\ Len(mp_header_pt) = 2
    /\ mp_header_pt[2] = [lo |-> mp_header_ct.der.len, hi |-> mp_header_ct.der.len]

\* C19 as stated: assemble_message_packet produces a packet only for a
\* recipient key whose capacity keyBits/8 - 42 is at least the size of the
\* DER-encoded MPHeader, and rejects every smaller key
C19_KeySizeBoundary ==
    pc # "assemble_header" =>
        KeySize(args.recipient_pk) \div 8 - 42 >= mp_header_ct.der.len

\* C19, amended: assemble_message_packet succeeds for the smallest recipient
\* key whose capacity is at least the size L of the DER-encoded MPHeader, with
\* the header in one RSA block, and it succeeds for smaller keys as well: the
\* header is then split into ceil(L / (keyBits/8 - 42)) blocks, each of them
\* the encryption of 1 to keyBits/8 - 42 octets, which RSA-OAEP accepts
C19_KeySizeBoundary_Amended ==
    pc # "assemble_header" =>
        LET L == mp_header_ct.der.len
            max == KeySize(args.recipient_pk) \div 8 - 42
            blocks == mp_header_ct.blocks
        IN  /\ max >= L => Len(blocks) = 1
            /\ max < L => Len(blocks) = CeilDiv(L, max) /\ Len(blocks) >= 2
            /\ \A j \in 1..Len(blocks) :
                    /\ blocks[j].hi - blocks[j].lo + 1 >= 1
                    /\ blocks[j].hi - blocks[j].lo + 1 <= max

\* a packet has been made for a key one octet smaller than the smallest key
\* that holds the header in one block
C19_Witness ==
    /\ pc = "trial"
    /\ KeySize(args.recipient_pk) \div 8 - 42 = mp_header_ct.der.len - 1
    /\ Len(mp_header_ct.blocks) = 2
    /\ result = NoResult

====
